---- MODULE Spec2Model ----
(***************************************************************************)
(* Model of the cities API server (api/index.js, api/store.js,             *)
(* api/geometry-utils.js): the file-based store and its query predicates,  *)
(* the great-circle distance, and the area-search jobs kept in the         *)
(* process-wide map areaProcessingJobs, with their background lookups,     *)
(* scans and expiry timers.                                                *)
(*                                                                         *)
(* Three specifications share the variables:                               *)
(*   - Spec, FairSpec: the area jobs, with failing store reads and time    *)
(*   - StoreSpec: one call of FileBasedStore.filter, event by event, on    *)
(*     every small file                                                    *)
(*   - ApiSpec: the five routes behind the authentication middleware       *)
(*                                                                         *)
(* JavaScript values:                                                      *)
(*   - null / undefined is the empty tuple <<>>, a present value v is <<v>>*)
(*   - a number is [nan |-> BOOLEAN, val |-> Int] (NaN has nan = TRUE)     *)
(*   - a query-string value that is parsed is a sequence of characters     *)
(*   - coordinates are in units of 1e-4 degree                             *)
(*   - time is in minutes                                                  *)
(***************************************************************************)
EXTENDS Integers, Sequences, FiniteSets, TLC

\* Number of /area requests the server accepts in a run.
MaxJobs == 2

VARIABLES
  areaProcessingJobs,  \* the map jobID -> [result, isDone]
  tasks,               \* the pending continuations of accepted /area requests:
                       \*   request number -> [jobID, fromID, distance: the locals of
                       \*   the /area handler; fromCity, jobDistance: the arguments of
                       \*   scheduleAreaProcessingJob; pc: "lookup", "scan" (the await
                       \*   it is at), "done", "failed" (how the scan ended); timer:
                       \*   "unset", "armed", "fired"; left: minutes until it is due];
                       \*   in ApiSpec also those of /cities-by-tag and /distance,
                       \*   numbered from -1 down: [req, pc, and the locals kept
                       \*   across the await]; in StoreSpec the one call of filter:
                       \*   [file, index: records emitted so far, result, stream,
                       \*   promise, and what its matcher was made from]
  accepted,            \* how many /area requests were accepted so far
  out                  \* what the last step sent: HTTP request/response, console.error

vars == <<areaProcessingJobs, tasks, accepted, out>>

----------------------------------------------------------------------------
(* JavaScript values *)

null == <<>>
Some(v) == <<v>>

NaN == [nan |-> TRUE, val |-> 0]
Num(n) == [nan |-> FALSE, val |-> n]

\* a == b on numbers: NaN equals nothing, itself included
LooseEqNum(a, b) == ~a.nan /\ ~b.nan /\ a.val = b.val

\* a < b on numbers: any comparison with NaN is false
LessNum(a, b) == ~a.nan /\ ~b.nan /\ a.val < b.val

\* a * k
MulNum(a, k) == IF a.nan THEN NaN ELSE Num(a.val * k)

Digits == {"0", "1", "2", "3", "4", "5", "6", "7", "8", "9"}

DigitVal(c) ==
  CASE c = "0" -> 0 [] c = "1" -> 1 [] c = "2" -> 2 [] c = "3" -> 3 [] c = "4" -> 4
    [] c = "5" -> 5 [] c = "6" -> 6 [] c = "7" -> 7 [] c = "8" -> 8 [] c = "9" -> 9

RECURSIVE DigitPrefix(_)
DigitPrefix(s) ==
  IF s = <<>> \/ Head(s) \notin Digits THEN <<>> ELSE <<Head(s)>> \o DigitPrefix(Tail(s))

RECURSIVE DigitsValue(_)
DigitsValue(s) ==
  IF s = <<>> THEN 0 ELSE 10 * DigitsValue(SubSeq(s, 1, Len(s) - 1)) + DigitVal(s[Len(s)])

\* parseInt(v) of a query value without sign or blanks: the number its leading
\* digits spell, NaN when it has none; parseInt(null) parses "null"
parseInt(v) ==
  IF v = null THEN NaN
  ELSE IF DigitPrefix(v[1]) = <<>> THEN NaN ELSE Num(DigitsValue(DigitPrefix(v[1])))

\* array.find(p): the first element satisfying p, or undefined; a callback is a
\* function from the values it is called with to BOOLEAN
find(array, p) ==
  LET hits == SelectSeq(array, LAMBDA x : p[x])
  IN IF hits = <<>> THEN null ELSE Some(hits[1])

----------------------------------------------------------------------------
(* addresses.json *)

\* A record of the file; the last record of addresses has no tags
City(guid, isActive, latitude, longitude, tags) ==
  [guid |-> guid, isActive |-> isActive, latitude |-> latitude,
   longitude |-> longitude, tags |-> tags]

addresses ==
  << City("a", TRUE, 0, 0, <<"x", "y">>),
     City("b", FALSE, 0, 0, <<"x">>),
     City("c", TRUE, 30, 40, <<"y">>),
     City("d", TRUE, 200, 100, <<>>),
     [guid |-> "e", isActive |-> TRUE, latitude |-> 300, longitude |-> 0] >>

ArrayFields == {"tags"}

\* The values a matcher is called with: the records of the file
Items == {addresses[i] : i \in 1..Len(addresses)}

----------------------------------------------------------------------------
(* geometry-utils.js *)

\* (EARTH_RADIUS_APPROX * PI/180 * 1e-4)^2 * 100: the square of the meters in one
\* coordinate unit, times 100
MetersSqPerUnitSq100 == 12364

RECURSIVE SqrtBetween(_, _, _)
SqrtBetween(x, lo, hi) ==
  IF lo >= hi THEN lo
  ELSE LET mid == (lo + hi + 1) \div 2
       IN IF mid * mid <= x THEN SqrtBetween(x, mid, hi) ELSE SqrtBetween(x, lo, mid - 1)

\* floor(sqrt(x)) for 0 <= x < 2^30
Sqrt(x) == SqrtBetween(x, 0, 32767)

\* The distance whose longitude term is not squared
distanceBetweenCoord_lonUnsquared(p1, p2) ==
  LET deltaLat == p2.lat - p1.lat
      deltaLon == p2.lon - p1.lon
      a == deltaLat * deltaLat + deltaLon
  IN Num(Sqrt((a * MetersSqPerUnitSq100) \div 100))

\* The great-circle distance in whole meters (the floor of what the source returns; a
\* comparison with a whole number decides the same either way). For the points of
\* the dataset, all within 0.03 degree of (0, 0), the haversine terms are
\* sin(x) = x and cos(x) = 1 to well below a meter, which leaves
\* R * sqrt(deltaLat^2 + deltaLon^2) with the deltas in radians.
distanceBetweenCoord(p1, p2) ==
  LET deltaLat == p2.lat - p1.lat
      deltaLon == p2.lon - p1.lon
      a == deltaLat * deltaLat + deltaLon * deltaLon
  IN Num(Sqrt((a * MetersSqPerUnitSq100) \div 100))

----------------------------------------------------------------------------
(* store.js *)

\* obj[key], undefined when the record has no such field
Field(obj, key) == IF key \in DOMAIN obj THEN Some(obj[key]) ELSE null

\* array.includes(v)
Includes(array, v) == \E i \in 1..Len(array) : array[i] = v

\* The loop body that looks for $in first
KeyMatches_inFirst(obj, key, directive) ==
  IF Field(obj, key) = null THEN FALSE
  ELSE IF "$in" \in DOMAIN directive
    THEN Includes(directive["$in"], obj[key])
  ELSE IF "$equals" \in DOMAIN directive
    THEN obj[key] = directive["$equals"]
  ELSE IF "$includes" \in DOMAIN directive
    THEN key \in ArrayFields /\ Includes(obj[key], directive["$includes"])
  ELSE TRUE

\* One key of matchesKeyQuery's loop: TRUE when the loop goes on to the next key,
\* FALSE when it returns false. A directive is a function from operator names
\* to comparison values; an operator it does not name is undefined.
KeyMatches(obj, key, directive) ==
  IF Field(obj, key) = null THEN FALSE
  ELSE IF "$equals" \in DOMAIN directive
    THEN obj[key] = directive["$equals"]
  ELSE IF "$includes" \in DOMAIN directive
    THEN key \in ArrayFields /\ Includes(obj[key], directive["$includes"])
  ELSE IF "$in" \in DOMAIN directive
    THEN Includes(directive["$in"], obj[key])
  ELSE TRUE

matchesKeyQuery(obj, keyQuery) ==
  \A currentKey \in DOMAIN keyQuery : KeyMatches(obj, currentKey, keyQuery[currentKey])

\* where(filterQuery): the matcher it returns
where(filterQuery) == [item \in Items |-> matchesKeyQuery(item, filterQuery)]

\* What FileBasedStore.filter resolves with: the records of the file the matcher
\* accepts, in file order
filter(matcher) == SelectSeq(addresses, LAMBDA item : matcher[item])

----------------------------------------------------------------------------
(* index.js: utilities *)

\* The identifier of the first job (a UUID in the source)
FixedJobID == 0

\* Minutes until a job's data is cleared: 1000 * 60 * 5 ms
ExpiryDelay == 5

\* crypto.randomUUID(): a value never drawn before, here the number of the request
\* that draws it (requests are numbered from 1, so it is never FixedJobID)
randomUUID(n) == n

\* Map.set, Map.delete
MapSet(map, key, value) ==
  [k \in DOMAIN map \cup {key} |-> IF k = key THEN value ELSE map[k]]

MapDelete(map, key) == [k \in DOMAIN map \ {key} |-> map[k]]

NoRequest == [path |-> "-"]
NoResponse == [code |-> 0]

\* respondWithCode(statusCode, res): the status with its text as a plain body
respondWithCode(statusCode) ==
  [code |-> statusCode,
   body |-> CASE statusCode = 202 -> "Accepted"
              [] statusCode = 400 -> "Bad Request"
              [] statusCode = 401 -> "Unauthorized"
              [] statusCode = 404 -> "Not Found"
              [] OTHER -> "Internal Server Error"]

\* res.status(code).json(payload)
json(statusCode, payload) == [code |-> statusCode, body |-> payload]

\* A step of a background continuation: it answers no request
Background(error) == [req |-> NoRequest, res |-> NoResponse, err |-> error]

\* A step of a request handler
Handled(req, res) == [req |-> req, res |-> res, err |-> FALSE]

----------------------------------------------------------------------------
(* index.js: area jobs *)

\* Line 235: the identifier of the n-th accepted request's job
newJobID(jobs, n) ==
  IF Cardinality(DOMAIN jobs) = 0 THEN FixedJobID ELSE randomUUID(n)

\* Line 229: the validation of /area
areaParamsInvalid(fromID, distance) == fromID = null \/ LooseEqNum(distance, NaN)

\* The matcher without its test of the guid
withinDistance_withOrigin(fromCity, distance, item) ==
  LessNum(distanceBetweenCoord([lat |-> fromCity.latitude, lon |-> fromCity.longitude],
                               [lat |-> item.latitude, lon |-> item.longitude]),
          distance)

\* Lines 202-208: the matcher of the area scan
withinDistance(fromCity, distance, item) ==
  /\ item.guid # fromCity.guid
  /\ LessNum(distanceBetweenCoord([lat |-> fromCity.latitude, lon |-> fromCity.longitude],
                                  [lat |-> item.latitude, lon |-> item.longitude]),
             distance)

\* Lines 202-208: what the scan resolves with
areaScan(fromCity, distance) ==
  filter([item \in Items |-> withinDistance(fromCity, distance, item)])

\* Line 210: the scan has resolved
jobsAfterScan(jobs, jobID, result) == MapSet(jobs, jobID, [result |-> result, isDone |-> TRUE])

\* The catch block without its delete
jobsAfterScanError_kept(jobs, jobID) == jobs

\* Line 213: the scan has rejected
jobsAfterScanError(jobs, jobID) == MapDelete(jobs, jobID)

\* Line 256: the lookup of the origin city has rejected
jobsAfterLookupError(jobs, jobID) == MapDelete(jobs, jobID)

\* Line 199: the expiry timer's callback
jobsAfterExpiry(jobs, jobID) == MapDelete(jobs, jobID)

\* Lines 245-249: what the lookup of the origin city finds
lookupOrigin(fromID) ==
  LET result == filter(where([guid |-> [op \in {"$equals"} |-> fromID]]))
  IN find(result, [city \in Items |-> city.guid = fromID])

\* The handler without its isDone test
areaResultResponse_noPending(jobs, areaJobID) ==
  IF areaJobID \notin DOMAIN jobs THEN respondWithCode(404)
  ELSE json(200, [cities |-> jobs[areaJobID].result])

\* Lines 263-274: the response of GET /area-result/:areaJobID
areaResultResponse(jobs, areaJobID) ==
  IF areaJobID \notin DOMAIN jobs THEN respondWithCode(404)
  ELSE IF ~jobs[areaJobID].isDone THEN respondWithCode(202)
  ELSE json(200, [cities |-> jobs[areaJobID].result])

----------------------------------------------------------------------------
(* The requests of a run *)

\* GET /area with: no from; no distance; a distance that is no number; an origin
\* of the file; an origin that is not in the file
AreaQueries ==
  { [from |-> null, distance |-> Some(<<"1">>)],
    [from |-> Some("a"), distance |-> null],
    [from |-> Some("a"), distance |-> Some(<<"k", "m">>)],
    [from |-> Some("a"), distance |-> Some(<<"1">>)],
    [from |-> Some("zz"), distance |-> Some(<<"1">>)] }

\* The identifiers asked of /area-result: the fixed one and the first random one,
\* each unknown to the server until a request is given it
AreaJobIDs == {FixedJobID, randomUUID(2)}

\* scheduleAreaProcessingJob has returned: of its request only the timer callback
\* is left, which holds jobID alone
Settled(task, outcome) ==
  [jobID |-> task.jobID, fromID |-> "", distance |-> NaN, fromCity |-> null,
   jobDistance |-> NaN, pc |-> outcome, timer |-> task.timer, left |-> task.left]

\* A continuation has nothing left to run: its request is forgotten
Finished(task) == task.pc \in {"done", "failed"} /\ task.timer = "fired"

Forget(ts) == [r \in {x \in DOMAIN ts : ~Finished(ts[x])} |-> ts[r]]

Init ==
  /\ areaProcessingJobs = <<>>
  /\ tasks = <<>>
  /\ accepted = 0
  /\ out = Background(FALSE)

\* GET /area up to its first await (lines 223-245)
Area(query) ==
  LET fromID == query.from
      distance == parseInt(query.distance)
      req == [path |-> "/area", query |-> query]
  IN IF areaParamsInvalid(fromID, distance)
     THEN /\ out' = Handled(req, respondWithCode(400))
          /\ UNCHANGED <<areaProcessingJobs, tasks, accepted>>
     ELSE LET n == accepted + 1
              jobID == newJobID(areaProcessingJobs, n)
          IN /\ accepted < MaxJobs
             /\ accepted' = n
             /\ areaProcessingJobs' =
                  MapSet(areaProcessingJobs, jobID, [result |-> <<>>, isDone |-> FALSE])
             /\ out' = Handled(req, json(202, [resultsUrl |-> jobID]))
             /\ tasks' = tasks @@ (n :> [jobID |-> jobID, fromID |-> fromID[1],
                                         distance |-> distance,
                                         fromCity |-> null, jobDistance |-> NaN,
                                         pc |-> "lookup", timer |-> "unset", left |-> 0])

\* The lookup of the origin city resolves (lines 245-253); when the city is found
\* scheduleAreaProcessingJob runs up to its await (lines 196-202)
LookupResolves(n) ==
  /\ n \in DOMAIN tasks
  /\ tasks[n].pc = "lookup"
  /\ LET fromCity == lookupOrigin(tasks[n].fromID)
     IN tasks' = IF fromCity # null
                 THEN [tasks EXCEPT ![n].pc = "scan",
                                    ![n].fromCity = fromCity,
                                    ![n].jobDistance = MulNum(tasks[n].distance, 1000),
                                    ![n].timer = "armed",
                                    ![n].left = ExpiryDelay]
                 ELSE [r \in DOMAIN tasks \ {n} |-> tasks[r]]
  /\ out' = Background(FALSE)
  /\ UNCHANGED <<areaProcessingJobs, accepted>>

\* The lookup of the origin city rejects (lines 254-257)
LookupRejects(n) ==
  /\ n \in DOMAIN tasks
  /\ tasks[n].pc = "lookup"
  /\ areaProcessingJobs' = jobsAfterLookupError(areaProcessingJobs, tasks[n].jobID)
  /\ tasks' = [r \in DOMAIN tasks \ {n} |-> tasks[r]]
  /\ out' = Background(TRUE)
  /\ UNCHANGED accepted

\* The area scan resolves (lines 202-210)
ScanResolves(n) ==
  /\ n \in DOMAIN tasks
  /\ tasks[n].pc = "scan"
  /\ areaProcessingJobs' =
       jobsAfterScan(areaProcessingJobs, tasks[n].jobID,
                     areaScan(tasks[n].fromCity[1], tasks[n].jobDistance))
  /\ tasks' = Forget([tasks EXCEPT ![n] = Settled(tasks[n], "done")])
  /\ out' = Background(FALSE)
  /\ UNCHANGED accepted

\* The area scan rejects (lines 211-214)
ScanRejects(n) ==
  /\ n \in DOMAIN tasks
  /\ tasks[n].pc = "scan"
  /\ areaProcessingJobs' = jobsAfterScanError(areaProcessingJobs, tasks[n].jobID)
  /\ tasks' = Forget([tasks EXCEPT ![n] = Settled(tasks[n], "failed")])
  /\ out' = Background(TRUE)
  /\ UNCHANGED accepted

\* The expiry timer of a job goes off (line 199)
Expire(n) ==
  /\ n \in DOMAIN tasks
  /\ tasks[n].timer = "armed"
  /\ tasks[n].left = 0
  /\ areaProcessingJobs' = jobsAfterExpiry(areaProcessingJobs, tasks[n].jobID)
  /\ tasks' = Forget([tasks EXCEPT ![n].timer = "fired"])
  /\ out' = Background(FALSE)
  /\ UNCHANGED accepted

\* A minute passes; a timer that is due goes off before the next minute does
Tick ==
  /\ \E n \in DOMAIN tasks : tasks[n].timer = "armed"
  /\ \A n \in DOMAIN tasks : tasks[n].timer = "armed" => tasks[n].left > 0
  /\ tasks' = [n \in DOMAIN tasks |->
                 IF tasks[n].timer = "armed"
                 THEN [tasks[n] EXCEPT !.left = tasks[n].left - 1]
                 ELSE tasks[n]]
  /\ out' = Background(FALSE)
  /\ UNCHANGED <<areaProcessingJobs, accepted>>

\* GET /area-result/:areaJobID (lines 263-274)
AreaResult(areaJobID) ==
  /\ out' = Handled([path |-> "/area-result", areaJobID |-> areaJobID],
                    areaResultResponse(areaProcessingJobs, areaJobID))
  /\ UNCHANGED <<areaProcessingJobs, tasks, accepted>>

Requests == 1..MaxJobs

Next ==
  \/ \E query \in AreaQueries : Area(query)
  \/ \E n \in Requests : LookupResolves(n)
  \/ \E n \in Requests : LookupRejects(n)
  \/ \E n \in Requests : ScanResolves(n)
  \/ \E n \in Requests : ScanRejects(n)
  \/ \E n \in Requests : Expire(n)
  \/ Tick
  \/ \E areaJobID \in AreaJobIDs : AreaResult(areaJobID)

Spec == Init /\ [][Next]_vars

\* The store answers every access, a due timer goes off, and time passes
FairSpec ==
  /\ Spec
  /\ WF_vars(Tick)
  /\ \A n \in Requests :
       /\ WF_vars(LookupResolves(n) \/ LookupRejects(n))
       /\ WF_vars(ScanResolves(n) \/ ScanRejects(n))
       /\ WF_vars(Expire(n))

----------------------------------------------------------------------------
(* store.js: one call of FileBasedStore.filter, event by event *)

\* The longest file a call reads
MaxFileLen == 3

\* The records of a file, as a set
Records(file) == {file[i] : i \in 1..Len(file)}

RECURSIVE FilesOfLen(_)
FilesOfLen(n) ==
  IF n = 0 THEN {<<>>}
  ELSE UNION {{Append(file, item) : item \in Items \ Records(file)} : file \in FilesOfLen(n - 1)}

\* The files a call reads: records of addresses.json, MaxFileLen of them or fewer,
\* in any order and each at most once (guids are unique)
Files == UNION {FilesOfLen(n) : n \in 0..MaxFileLen}

\* A directive naming one operator, and one naming two
Only(op, value) == [o \in {op} |-> value]

Both(op1, value1, op2, value2) == [o \in {op1, op2} |-> IF o = op1 THEN value1 ELSE value2]

\* The queries where() is given: those of /cities-by-tag (lines 131-134), of
\* /distance (line 166) and of /area (line 246), $includes on a field that is no
\* array, and directives that name two operators
FilterQueries ==
  { [tags |-> Only("$includes", "x")],
    [isActive |-> Only("$equals", TRUE), tags |-> Only("$includes", "x")],
    [isActive |-> Only("$equals", FALSE), tags |-> Only("$includes", "y")],
    [guid |-> Only("$in", <<"a", "c">>)],
    [guid |-> Only("$equals", "c")],
    [guid |-> Only("$includes", "a")],
    [guid |-> Both("$equals", "a", "$in", <<"c">>)],
    [tags |-> Both("$includes", "y", "$in", <<>>)] }

\* The radii of the scans a call runs, in meters
ScanDistances == {Num(1000), Num(2500)}

\* Lines 202-208: the matcher scheduleAreaProcessingJob gives to store.filter
scanMatcher(fromCity, distance) ==
  [item \in Items |-> withinDistance(fromCity, distance, item)]

\* The matcher of a call: where(filterQuery), or that of an area scan
matcherOf(call) ==
  IF call.kind = "where" THEN where(call.filterQuery)
  ELSE scanMatcher(call.fromCity, call.distance)

\* A promise, and what resolve and reject do to it: nothing once it is settled
PendingPromise == [state |-> "pending", value |-> <<>>]

resolve(promise, value) ==
  IF promise.state = "pending" THEN [state |-> "fulfilled", value |-> value] ELSE promise

reject(promise) ==
  IF promise.state = "pending" THEN [state |-> "rejected", value |-> <<>>] ELSE promise

\* The stage that lets every record through
onData_unfiltered(result, matcher, item) == Append(result, item)

\* Lines 21 and 24: the filtering stage of the pipeline lets a record through when
\* the matcher accepts it, and the 'data' listener pushes it
onData(result, matcher, item) ==
  IF matcher[item] THEN Append(result, item) ELSE result

\* Lines 13-19: filter() has built the pipeline and returned its promise
FilterCalled(file, call) ==
  /\ tasks = << call @@ [file |-> file, index |-> 0, result |-> <<>>,
                         stream |-> "open", promise |-> PendingPromise] >>
  /\ areaProcessingJobs = <<>>
  /\ accepted = 0
  /\ out = Background(FALSE)

StoreInit ==
  \E file \in Files :
    \/ \E filterQuery \in FilterQueries :
         FilterCalled(file, [kind |-> "where", filterQuery |-> filterQuery])
    \/ \E fromCity \in Records(file) : \E distance \in ScanDistances :
         FilterCalled(file, [kind |-> "scan", fromCity |-> fromCity, distance |-> distance])

\* The pipeline emits 'data' for the next record of the file (lines 21-24)
OnData ==
  /\ tasks[1].stream = "open"
  /\ tasks[1].index < Len(tasks[1].file)
  /\ LET item == tasks[1].file[tasks[1].index + 1]
     IN tasks' = << [tasks[1] EXCEPT !.index = @ + 1,
                                     !.result = onData(@, matcherOf(tasks[1]), item)] >>
  /\ UNCHANGED <<areaProcessingJobs, accepted, out>>

\* The pipeline emits 'end' (line 25): after the last record, or, as far as the
\* source says, after it has failed (the listener is not removed on 'error')
OnEnd ==
  /\ \/ tasks[1].stream = "open" /\ tasks[1].index = Len(tasks[1].file)
     \/ tasks[1].stream = "errored"
  /\ tasks' = << [tasks[1] EXCEPT !.stream = IF @ = "open" THEN "ended" ELSE "closed",
                                  !.promise = resolve(@, tasks[1].result)] >>
  /\ UNCHANGED <<areaProcessingJobs, accepted, out>>

\* The read or the parse fails and the pipeline emits 'error' (line 26); no
\* record follows
OnError ==
  /\ tasks[1].stream = "open"
  /\ tasks' = << [tasks[1] EXCEPT !.stream = "errored", !.promise = reject(@)] >>
  /\ UNCHANGED <<areaProcessingJobs, accepted, out>>

StoreNext == OnData \/ OnEnd \/ OnError

StoreSpec == StoreInit /\ [][StoreNext]_vars

----------------------------------------------------------------------------
(* index.js: the routes behind the authentication middleware *)

\* Number of /cities-by-tag and /distance requests that await the store at a time
MaxPending == 1

\* process.env.TEST_TOKEN: any non-empty string (the server does not listen without)
TEST_TOKEN == "secret"

\* An Authorization header is <<scheme, credentials>>. The configured one:
Authorized == Some(<<"bearer", TEST_TOKEN>>)

\* No header, the configured one, one with a wrong token
Authorizations == {null, Authorized, Some(<<"bearer", "wrong">>)}

\* The middleware that looks at the scheme alone
authenticated_anyBearer(authorization) ==
  authorization # null /\ authorization[1][1] = "bearer"

\* Line 106: req.get('Authorization') === `bearer ${process.env.TEST_TOKEN}`
authenticated(authorization) == authorization = Authorized

\* The query parameters of GET /cities-by-tag
TagQueries ==
  { [isActive |-> Some("true"), tag |-> null],
    [isActive |-> null, tag |-> Some("x")],
    [isActive |-> Some("true"), tag |-> Some("x")],
    [isActive |-> Some("false"), tag |-> Some("x")],
    [isActive |-> null, tag |-> Some("q")] }

\* The query parameters of GET /distance
DistanceQueries ==
  { [from |-> null, to |-> Some("a")],
    [from |-> Some("a"), to |-> null],
    [from |-> Some("a"), to |-> Some("c")],
    [from |-> Some("c"), to |-> Some("a")],
    [from |-> Some("a"), to |-> Some("a")],
    [from |-> Some("c"), to |-> Some("d")],
    [from |-> Some("a"), to |-> Some("zz")],
    [from |-> Some("zz"), to |-> Some("c")] }

\* The query that takes any isActive parameter for true
citiesByTagQuery_anyIsTrue(tagFilter, isActiveFilter) ==
  IF isActiveFilter # null
  THEN [isActive |-> Only("$equals", TRUE), tags |-> Only("$includes", tagFilter)]
  ELSE [tags |-> Only("$includes", tagFilter)]

\* Lines 131-134: the query /cities-by-tag gives to where()
citiesByTagQuery(tagFilter, isActiveFilter) ==
  IF isActiveFilter # null
  THEN [isActive |-> Only("$equals", isActiveFilter[1] = "true"),
        tags |-> Only("$includes", tagFilter)]
  ELSE [tags |-> Only("$includes", tagFilter)]

\* +(meters / 1000).toFixed(2): kilometres rounded to two decimals, in hundredths
\* of a kilometre
toFixed2(meters) == (meters.val + 5) \div 10

\* The response that takes the two cities by their place in the result
distanceResponse_byPosition(fromID, toID) ==
  LET result == filter(where([guid |-> Only("$in", <<fromID, toID>>)]))
      fromCity == IF Len(result) >= 1 THEN Some(result[1]) ELSE null
      toCity == IF Len(result) >= 2 THEN Some(result[2]) ELSE null
  IN IF fromCity = null \/ toCity = null THEN respondWithCode(404)
     ELSE json(200, [distance |->
                       toFixed2(distanceBetweenCoord(
                         [lat |-> fromCity[1].latitude, lon |-> fromCity[1].longitude],
                         [lat |-> toCity[1].latitude, lon |-> toCity[1].longitude])),
                     unit |-> "km",
                     from |-> fromCity[1],
                     to |-> toCity[1]])

\* Lines 165-184: the response of /distance once the store has resolved
distanceResponse(fromID, toID) ==
  LET result == filter(where([guid |-> Only("$in", <<fromID, toID>>)]))
      fromCity == find(result, [city \in Items |-> city.guid = fromID])
      toCity == find(result, [city \in Items |-> city.guid = toID])
  IN IF fromCity = null \/ toCity = null THEN respondWithCode(404)
     ELSE json(200, [distance |->
                       toFixed2(distanceBetweenCoord(
                         [lat |-> fromCity[1].latitude, lon |-> fromCity[1].longitude],
                         [lat |-> toCity[1].latitude, lon |-> toCity[1].longitude])),
                     unit |-> "km",
                     from |-> fromCity[1],
                     to |-> toCity[1]])

\* store.readStream(): the bytes of the file
readStream == addresses

\* The continuations of /cities-by-tag and /distance are numbered -1, -2, ...
PendingSlots == {0 - k : k \in 1..MaxPending}

\* A handler awaits store.filter: its locals are kept until the store settles
Await(task) ==
  /\ \E k \in PendingSlots :
       /\ k \notin DOMAIN tasks
       /\ \A j \in PendingSlots : j > k => j \in DOMAIN tasks
       /\ tasks' = tasks @@ (k :> task)
  /\ out' = Background(FALSE)
  /\ UNCHANGED <<areaProcessingJobs, accepted>>

\* A handler answers at once
Answer(req, res) ==
  /\ out' = Handled(req, res)
  /\ UNCHANGED <<areaProcessingJobs, tasks, accepted>>

\* GET /cities-by-tag up to its await (lines 124-131)
CitiesByTag(req) ==
  LET tagFilter == req.query.tag
      isActiveFilter == req.query.isActive
  IN IF tagFilter = null
     THEN Answer(req, respondWithCode(400))
     ELSE Await([filterQuery |-> citiesByTagQuery(tagFilter[1], isActiveFilter),
                 req |-> req, pc |-> "cities-by-tag"])

\* GET /distance up to its await (lines 156-165)
Distance(req) ==
  LET fromID == req.query.from
      toID == req.query.to
  IN IF fromID = null \/ toID = null
     THEN Answer(req, respondWithCode(400))
     ELSE Await([req |-> req, fromID |-> fromID[1], pc |-> "distance", toID |-> toID[1]])

\* GET /all-cities (lines 278-281)
AllCities(req) == Answer(req, json(200, readStream))

\* The route of a request that the middleware lets through
Route(request) ==
  CASE request.path = "/cities-by-tag" -> CitiesByTag(request)
    [] request.path = "/distance" -> Distance(request)
    [] request.path = "/area" -> Area(request.query)
    [] request.path = "/area-result" -> AreaResult(request.areaJobID)
    [] request.path = "/all-cities" -> AllCities(request)

\* A request arrives: the middleware (lines 105-113), then its route
Get(request) ==
  IF authenticated(request.authorization)
  THEN Route(request)
  ELSE Answer(request, respondWithCode(401))

\* store.filter resolves for /cities-by-tag (lines 131-136)
CitiesByTagResolves(k) ==
  /\ k \in DOMAIN tasks
  /\ tasks[k].pc = "cities-by-tag"
  /\ out' = Handled(tasks[k].req, json(200, [cities |-> filter(where(tasks[k].filterQuery))]))
  /\ tasks' = [r \in DOMAIN tasks \ {k} |-> tasks[r]]
  /\ UNCHANGED <<areaProcessingJobs, accepted>>

\* store.filter resolves for /distance (lines 165-184)
DistanceResolves(k) ==
  /\ k \in DOMAIN tasks
  /\ tasks[k].pc = "distance"
  /\ out' = Handled(tasks[k].req, distanceResponse(tasks[k].fromID, tasks[k].toID))
  /\ tasks' = [r \in DOMAIN tasks \ {k} |-> tasks[r]]
  /\ UNCHANGED <<areaProcessingJobs, accepted>>

\* store.filter rejects for either (lines 138-141, 186-189)
QueryRejects(k) ==
  /\ k \in DOMAIN tasks
  /\ tasks[k].pc \in {"cities-by-tag", "distance"}
  /\ out' = [req |-> tasks[k].req, res |-> respondWithCode(500), err |-> TRUE]
  /\ tasks' = [r \in DOMAIN tasks \ {k} |-> tasks[r]]
  /\ UNCHANGED <<areaProcessingJobs, accepted>>

\* Every route, with every Authorization header; the store's answers to the
\* handlers that await it. One /area request with the configured header is let
\* in, to fill the registry, and its lookup and scan resolve.
ApiNext ==
  \/ \E authorization \in Authorizations : \E query \in TagQueries :
       Get([path |-> "/cities-by-tag", query |-> query, authorization |-> authorization])
  \/ \E authorization \in Authorizations : \E query \in DistanceQueries :
       Get([path |-> "/distance", query |-> query, authorization |-> authorization])
  \/ \E authorization \in Authorizations \ {Authorized} : \E query \in AreaQueries :
       Get([path |-> "/area", query |-> query, authorization |-> authorization])
  \/ \E query \in AreaQueries :
       /\ accepted = 0
       /\ Get([path |-> "/area", query |-> query, authorization |-> Authorized])
  \/ \E authorization \in Authorizations : \E areaJobID \in AreaJobIDs :
       Get([path |-> "/area-result", areaJobID |-> areaJobID,
            authorization |-> authorization])
  \/ \E authorization \in Authorizations :
       Get([path |-> "/all-cities", authorization |-> authorization])
  \/ \E k \in PendingSlots : CitiesByTagResolves(k)
  \/ \E k \in PendingSlots : DistanceResolves(k)
  \/ \E k \in PendingSlots : QueryRejects(k)
  \/ \E n \in Requests : LookupResolves(n)
  \/ \E n \in Requests : ScanResolves(n)

ApiSpec == Init /\ [][ApiNext]_vars

----------------------------------------------------------------------------
(* Properties *)

\* What GET /area-result/<areaJobID> would answer in this state, and in the next
StatusOf(areaJobID) == areaResultResponse(areaProcessingJobs, areaJobID).code

StatusAfter(areaJobID) == areaResultResponse(areaProcessingJobs', areaJobID).code

OriginExists(fromID) == \E i \in 1..Len(addresses) : addresses[i].guid = fromID

\* Request n's scan resolves in this step
ScanCompletes(n) ==
  /\ n \in DOMAIN tasks
  /\ tasks[n].pc = "scan"
  /\ ~out'.err
  /\ n \in DOMAIN tasks' => tasks'[n].pc = "done"

\* Request n's lookup or scan rejects in this step
StoreFails(n) ==
  /\ n \in DOMAIN tasks
  /\ tasks[n].pc \in {"lookup", "scan"}
  /\ out'.err
  /\ n \in DOMAIN tasks' => tasks'[n].pc = "failed"

\* C1: a request with both parameters whose origin exists and whose store accesses
\* have not failed is answered 202 at its handle until its scan completes and 200
\* from then until its own expiry timer goes off, never 404.
C1_PendingThenDoneUntilExpiry ==
  \A n \in DOMAIN tasks :
    tasks[n].timer # "fired" =>
      /\ (tasks[n].pc = "lookup" /\ OriginExists(tasks[n].fromID)) =>
           StatusOf(tasks[n].jobID) = 202
      /\ tasks[n].pc = "scan" => StatusOf(tasks[n].jobID) = 202
      /\ tasks[n].pc = "done" => StatusOf(tasks[n].jobID) = 200

AreaResultMatchesRegistry ==
  out.req.path = "/area-result" =>
    LET id == out.req.areaJobID
        jobs == areaProcessingJobs
    IN /\ out.res.code \in {200, 202, 404}
       /\ out.res.code = 404 <=> id \notin DOMAIN jobs
       /\ out.res.code = 202 <=> (id \in DOMAIN jobs /\ ~jobs[id].isDone)
       /\ out.res.code = 200 <=> (id \in DOMAIN jobs /\ jobs[id].isDone)
       /\ out.res.code = 200 => out.res.body = [cities |-> jobs[id].result]

\* C2: GET /area-result/<id> answers 404 exactly when the map has no entry for id,
\* 202 exactly when the entry is not done, 200 with the entry's result as cities
\* exactly when it is done, and leaves the map as it was.
C2_AreaResultReflectsRegistry ==
  [][out'.req.path = "/area-result" =>
       /\ areaProcessingJobs' = areaProcessingJobs
       /\ AreaResultMatchesRegistry']_vars

\* C2 witness: a request for a finished job was answered 200 with its cities
C2_Witness ==
  /\ out.req.path = "/area-result"
  /\ out.res.code = 200
  /\ Len(out.res.body.cities) > 0

\* The records other than the origin within `radius` meters of it, in file order
WithinMeters(fromCity, radius) ==
  LET near(item) ==
        /\ item.guid # fromCity.guid
        /\ LessNum(distanceBetweenCoord([lat |-> fromCity.latitude, lon |-> fromCity.longitude],
                                        [lat |-> item.latitude, lon |-> item.longitude]),
                   radius)
  IN SelectSeq(addresses, near)

\* C3: when a job completes, its result holds exactly the records whose distance to
\* the origin is less than the `distance` query parameter taken as meters.
C3_RadiusInMeters ==
  [][\A n \in Requests :
       ScanCompletes(n) =>
         areaProcessingJobs'[tasks[n].jobID].result =
           WithinMeters(tasks[n].fromCity[1], tasks[n].distance)]_vars

\* C4: no entry of the map stays forever: whenever an identifier is in the map, it
\* is later out of it.
C4_EveryJobExpires ==
  \A id \in AreaJobIDs :
    [](id \in DOMAIN areaProcessingJobs => <>(id \notin DOMAIN areaProcessingJobs))

\* C5: when the origin lookup ends without error and finds no record, the job is
\* deleted at once: its handle answers 404.
C5_UnknownOriginDeletesJob ==
  [][\A n \in Requests :
       ( /\ n \in DOMAIN tasks
         /\ tasks[n].pc = "lookup"
         /\ ~OriginExists(tasks[n].fromID)
         /\ n \notin DOMAIN tasks'
         /\ ~out'.err )
       => StatusAfter(tasks[n].jobID) = 404]_vars

\* C6: the completion of a scan whose job is no longer in the map writes nothing.
C6_CompletionOfDeletedJobIsNoOp ==
  [][\A n \in Requests :
       (ScanCompletes(n) /\ tasks[n].jobID \notin DOMAIN areaProcessingJobs)
       => areaProcessingJobs' = areaProcessingJobs]_vars

\* C7: only the first job of the process gets the fixed identifier: a request
\* accepted after another one is never answered with FixedJobID, nor with the
\* handle of a request still in progress.
C7_FixedIdOnlyOnce ==
  [][(accepted' = accepted + 1 /\ accepted >= 1) =>
       /\ out'.res.body.resultsUrl # FixedJobID
       /\ \A n \in DOMAIN tasks : tasks[n].jobID # out'.res.body.resultsUrl]_vars

\* C8: GET /area without `from`, or without a `distance` that is a number, is
\* answered 400.
C8_MissingParamsRejected ==
  (out.req.path = "/area"
     /\ (out.req.query.from = null \/ parseInt(out.req.query.distance).nan))
  => out.res.code = 400

C10_PendingToDoneOnly ==
  [][/\ \A id \in DOMAIN areaProcessingJobs \cap DOMAIN areaProcessingJobs' :
          areaProcessingJobs[id].isDone => areaProcessingJobs'[id] = areaProcessingJobs[id]
     /\ \A id \in DOMAIN areaProcessingJobs' :
          ~areaProcessingJobs'[id].isDone => areaProcessingJobs'[id].result = <<>>]_vars

\* Where a record stands in a file
PositionIn(file, item) == CHOOSE i \in 1..Len(file) : file[i] = item

\* C11: the result of a completed area scan, whatever file with unique guids it
\* read, holds no record with the origin's guid, holds no guid twice, and lists
\* records of the file in the order the file has them.
C11_ScanResultWithoutOriginInFileOrder ==
  (tasks[1].kind = "scan" /\ tasks[1].promise.state = "fulfilled") =>
    LET result == tasks[1].promise.value
        file == tasks[1].file
    IN /\ \A i \in 1..Len(result) :
            /\ result[i].guid # tasks[1].fromCity.guid
            /\ result[i] \in Records(file)
       /\ \A i, j \in 1..Len(result) :
            i < j => /\ result[i].guid # result[j].guid
                     /\ PositionIn(file, result[i]) < PositionIn(file, result[j])

\* A scan has resolved with two records, its origin standing between them in the file
C11_Witness ==
  /\ tasks[1].kind = "scan"
  /\ tasks[1].promise.state = "fulfilled"
  /\ Len(tasks[1].promise.value) = 2
  /\ Len(tasks[1].file) = 3
  /\ tasks[1].file[2] = tasks[1].fromCity

\* The last step answered a request to path that carried the configured header
Answered(path) ==
  /\ out.req.path = path
  /\ out.res.code # 0
  /\ out.req.authorization = Authorized

\* The response is this status with its text as the body
PlainStatus(res, statusCode) ==
  res.code = statusCode /\ res.body = respondWithCode(statusCode).body

\* The boolean an isActive parameter spells
SuppliedBoolean(isActive) == CASE isActive = "true" -> TRUE [] isActive = "false" -> FALSE

\* The records /cities-by-tag is to return: tag is an element of their tags, and
\* isActive, when supplied, is their isActive
Tagged(tag, isActive) ==
  {R \in Items :
     /\ "tags" \in DOMAIN R
     /\ tag \in Records(R.tags)
     /\ isActive # null => R.isActive = SuppliedBoolean(isActive[1])}

\* A response that carries exactly these records, each once
CitiesAre(res, records) ==
  /\ res.code = 200
  /\ Records(res.body.cities) = records
  /\ Len(res.body.cities) = Cardinality(records)

\* C12 as stated: /cities-by-tag answers 400 when tag is missing, and otherwise
\* returns exactly the records that have the tag and, when isActive is supplied,
\* the supplied activity; a record without tags is never among them.
C12_TagFilterOrBadRequest ==
  Answered("/cities-by-tag") =>
    IF out.req.query.tag = null THEN PlainStatus(out.res, 400)
    ELSE CitiesAre(out.res, Tagged(out.req.query.tag[1], out.req.query.isActive))

\* C12 amended: /cities-by-tag answers 400 when tag is missing; otherwise it
\* answers 500 when its read of the store fails, and when the read succeeds it
\* returns exactly the records that have the tag and, when isActive is supplied,
\* the supplied activity; a record without tags is never among them.
C12_TagFilterUnlessStoreFails ==
  Answered("/cities-by-tag") =>
    IF out.req.query.tag = null THEN PlainStatus(out.res, 400)
    ELSE IF out.err THEN PlainStatus(out.res, 500)
    ELSE CitiesAre(out.res, Tagged(out.req.query.tag[1], out.req.query.isActive))

\* tag=x&isActive=false has returned the one inactive record tagged x
C12_Witness ==
  /\ Answered("/cities-by-tag")
  /\ out.req.query = [isActive |-> Some("false"), tag |-> Some("x")]
  /\ out.res.code = 200
  /\ Len(out.res.body.cities) = 1
  /\ ~out.res.body.cities[1].isActive

\* The directive read for a field: the first the query names, in the order equals,
\* includes, memberOf
Selected(directive) ==
  CHOOSE op \in DOMAIN directive :
    \A other \in DOMAIN directive :
      PositionIn(<<"$equals", "$includes", "$in">>, op)
        <= PositionIn(<<"$equals", "$includes", "$in">>, other)

\* The selected directive succeeds on a field that is present
Succeeds(record, name, directive) ==
  LET value == directive[Selected(directive)]
  IN CASE Selected(directive) = "$equals" -> record[name] = value
       [] Selected(directive) = "$includes" ->
            name \in ArrayFields /\ value \in Records(record[name])
       [] Selected(directive) = "$in" -> record[name] \in Records(value)

\* C13: where(query) accepts a record exactly when every field the query names
\* is present on the record and the one directive selected for it (the first of
\* equals, includes, memberOf that the query gives) succeeds; a record that lacks
\* a named field is rejected whatever the directive.
C13_WhereAcceptsIffEveryFieldSucceeds ==
  [][(tasks[1].kind = "where" /\ tasks'[1].index = tasks[1].index + 1) =>
       LET record == tasks[1].file[tasks'[1].index]
           query == tasks[1].filterQuery
       IN (tasks'[1].result = Append(tasks[1].result, record))
            <=> \A name \in DOMAIN query :
                  /\ name \in DOMAIN record
                  /\ Succeeds(record, name, query[name])]_vars

\* A directive that names equals and memberOf has let through the record that
\* equals selects and passed over the one that memberOf alone would select
C13_Witness ==
  /\ tasks[1].kind = "where"
  /\ tasks[1].filterQuery = [guid |-> Both("$equals", "a", "$in", <<"c">>)]
  /\ tasks[1].index = Len(tasks[1].file)
  /\ \E i \in 1..Len(tasks[1].file) : tasks[1].file[i].guid = "c"
  /\ Len(tasks[1].result) = 1
  /\ tasks[1].result[1].guid = "a"

\* The record of the file with this guid
RecordOf(guid) == CHOOSE R \in Items : R.guid = guid

\* A 200 of /distance whose from and to are the records the parameters name
FromAndToAre(res, from, to) ==
  /\ res.code = 200
  /\ res.body.from = RecordOf(from)
  /\ res.body.to = RecordOf(to)

\* C14 as stated: /distance answers 400 exactly when from or to is missing, 404
\* exactly when both are given and one of them is the guid of no record, and
\* otherwise 200 with from and to the records the parameters name, whatever
\* their order in the file and also when they are the same.
C14_DistanceStatusByParameters ==
  Answered("/distance") =>
    LET from == out.req.query.from
        to == out.req.query.to
    IN IF from = null \/ to = null THEN PlainStatus(out.res, 400)
       ELSE IF ~OriginExists(from[1]) \/ ~OriginExists(to[1])
         THEN PlainStatus(out.res, 404)
       ELSE FromAndToAre(out.res, from[1], to[1])

\* C14 amended: /distance answers 400 exactly when from or to is missing; when
\* both are given it answers 500 if its read of the store fails, and if the read
\* succeeds 404 exactly when one of them is the guid of no record and otherwise
\* 200 with from and to the records the parameters name, whatever their order
\* in the file and also when they are the same.
C14_DistanceStatusUnlessStoreFails ==
  Answered("/distance") =>
    LET from == out.req.query.from
        to == out.req.query.to
    IN IF from = null \/ to = null THEN PlainStatus(out.res, 400)
       ELSE IF out.err THEN PlainStatus(out.res, 500)
       ELSE IF ~OriginExists(from[1]) \/ ~OriginExists(to[1])
         THEN PlainStatus(out.res, 404)
       ELSE FromAndToAre(out.res, from[1], to[1])

\* from=c&to=a, the later record of the file first, is answered with from c and to a
C14_Witness ==
  /\ Answered("/distance")
  /\ out.req.query = [from |-> Some("c"), to |-> Some("a")]
  /\ out.res.code = 200
  /\ out.res.body.from.guid = "c"
  /\ out.res.body.to.guid = "a"

\* The requests of ApiNext that carry this Authorization header
RequestsWith(authorization) ==
  {[path |-> "/cities-by-tag", query |-> query, authorization |-> authorization] :
     query \in TagQueries}
  \cup {[path |-> "/distance", query |-> query, authorization |-> authorization] :
          query \in DistanceQueries}
  \cup {[path |-> "/area", query |-> query, authorization |-> authorization] :
          query \in AreaQueries}
  \cup {[path |-> "/area-result", areaJobID |-> areaJobID,
            authorization |-> authorization] :
          areaJobID \in AreaJobIDs}
  \cup {[path |-> "/all-cities", authorization |-> authorization]}

\* C15: in every state, a request to any of the five routes that carries no
\* Authorization header, or one that is not the configured bearer token, is
\* answered 401 and changes nothing: no job is made, no read of the store is
\* started, the registry stays as it is.
C15_UnauthorizedIs401WithoutEffect ==
  \A authorization \in Authorizations \ {Authorized} :
    \A request \in RequestsWith(authorization) :
      /\ ENABLED Get(request)
      /\ ~ENABLED (/\ Get(request)
                   /\ ~(/\ out' = Handled(request, respondWithCode(401))
                        /\ UNCHANGED <<areaProcessingJobs, tasks, accepted>>))

\* A /area request with a wrong token was answered 401 while the registry held a
\* job and /distance awaited the store
C15_Witness ==
  /\ out.res.code = 401
  /\ out.req.path = "/area"
  /\ out.req.authorization = Some(<<"bearer", "wrong">>)
  /\ areaProcessingJobs # <<>>
  /\ \E k \in DOMAIN tasks : tasks[k].pc = "distance"

\* C16: a distance that /distance reports for from=A&to=B is the one it reports
\* for from=B&to=A, and the one it reports for from=A&to=A is 0.
C16_DistanceSymmetricAndZeroOnSelf ==
  (Answered("/distance") /\ out.res.code = 200) =>
    LET A == out.req.query.from[1]
        B == out.req.query.to[1]
        swapped == distanceResponse(B, A)
    IN /\ swapped.code = 200
       /\ out.res.body.distance = swapped.body.distance
       /\ A = B => out.res.body.distance = 0

\* from=c&to=a was answered with the 0.56 km between the two cities
C16_Witness ==
  /\ Answered("/distance")
  /\ out.res.code = 200
  /\ out.req.query.from = Some("c")
  /\ out.req.query.to = Some("a")
  /\ out.res.body.distance = 56

\* What a call of filter is to resolve with: the records of its file that its
\* matcher accepts, each once, in file order
Matches(call) == SelectSeq(call.file, LAMBDA item : matcherOf(call)[item])

\* C17: filter(predicate) resolves with exactly the records of the file for which
\* the predicate is true, each once and in file order; when the read or the
\* parse fails it rejects and never resolves, whatever it had collected; and once
\* settled its promise never changes.
C17_FilterSettlesOnceWithTheMatches ==
  /\ [](/\ tasks[1].stream = "open" => tasks[1].promise.state = "pending"
        /\ tasks[1].stream = "ended" =>
             /\ tasks[1].promise.state = "fulfilled"
             /\ tasks[1].promise.value = Matches(tasks[1])
        /\ tasks[1].stream \in {"errored", "closed"} =>
             tasks[1].promise.state = "rejected")
  /\ [][tasks[1].promise.state # "pending" => tasks'[1].promise = tasks[1].promise]_vars

\* A call that had collected records failed, was rejected, and stayed rejected
\* when the pipeline ended
C17_Witness ==
  /\ tasks[1].stream = "closed"
  /\ tasks[1].result # <<>>
  /\ tasks[1].index < Len(tasks[1].file)
  /\ tasks[1].promise.state = "rejected"

\* Request n's expiry timer goes off in this step, no earlier than ExpiryDelay
\* minutes after it was set
OwnExpiry(n) ==
  /\ n \in DOMAIN tasks
  /\ tasks[n].timer = "armed"
  /\ tasks[n].left = 0
  /\ n \in DOMAIN tasks' => tasks'[n].timer = "fired"

\* Request n is the latest of the requests in progress that were answered with
\* this handle: the entry under the handle is the one n created
LatestWith(n, id) ==
  /\ n \in DOMAIN tasks
  /\ tasks[n].jobID = id
  /\ \A m \in DOMAIN tasks : tasks[m].jobID = id => m <= n

\* C18: an entry leaves the registry only in a step of the job that created it:
\* its own expiry timer going off, or its own lookup or scan failing. The timer or
\* the failure of an earlier job never removes the entry of a later one.
C18_EntryRemovedOnlyByItsOwnJob ==
  [][\A id \in DOMAIN areaProcessingJobs :
       id \notin DOMAIN areaProcessingJobs' =>
         \E n \in Requests : LatestWith(n, id) /\ (OwnExpiry(n) \/ StoreFails(n))]_vars

\* C19: a scan that completes writes its result into the entry its own request
\* created: when a later request in progress was answered with the same handle,
\* the entry under that handle, which GET /area-result reads, is left as it is.
C19_CompletionWritesOwnEntryOnly ==
  [][\A k \in Requests :
       ScanCompletes(k) =>
         \A m \in DOMAIN tasks :
           (m > k /\ tasks[m].jobID = tasks[k].jobID
                  /\ tasks[m].jobID \in DOMAIN areaProcessingJobs) =>
             areaProcessingJobs'[tasks[m].jobID] = areaProcessingJobs[tasks[m].jobID]]_vars

====
